---- MODULE Spec2Model ----
(***************************************************************************)
(* State-machine model of the calculator core of calculator-rs             *)
(* (src/src/calculator.rs): the event dispatcher, the shunting-yard        *)
(* reordering and the postfix evaluation, with Rust's i64 arithmetic.      *)
(***************************************************************************)
EXTENDS Integers, Sequences, FiniteSets, TLC

(***************************************************************************)
(* i64 values.  The model checker's own integers are 32 bits wide, so an   *)
(* i64 is kept as a sign and a magnitude; the magnitude is a sequence of   *)
(* decimal limbs, least significant first, without leading zero limbs.     *)
(* Arithmetic is exact on this representation and is then brought back to  *)
(* the 64-bit range the way the compiled code does it (panic or wrap).     *)
(***************************************************************************)
Base == 10000

RECURSIVE NatNorm(_)
NatNorm(s) ==
    IF s = <<>> THEN <<>>
    ELSE IF s[Len(s)] = 0 THEN NatNorm(SubSeq(s, 1, Len(s) - 1))
    ELSE s

RECURSIVE NatOf(_)
NatOf(n) == IF n = 0 THEN <<>> ELSE <<n % Base>> \o NatOf(n \div Base)

RECURSIVE NatCmpAt(_, _, _)
NatCmpAt(a, b, i) ==
    IF i = 0 THEN 0
    ELSE IF a[i] < b[i] THEN -1
    ELSE IF a[i] > b[i] THEN 1
    ELSE NatCmpAt(a, b, i - 1)

\* -1, 0 or 1 as a < b, a = b, a > b (both without leading zero limbs)
NatCmp(a, b) ==
    IF Len(a) < Len(b) THEN -1
    ELSE IF Len(a) > Len(b) THEN 1
    ELSE NatCmpAt(a, b, Len(a))

RECURSIVE NatAddC(_, _, _)
NatAddC(a, b, c) ==
    IF a = <<>> /\ b = <<>> THEN (IF c = 0 THEN <<>> ELSE <<c>>)
    ELSE LET x == IF a = <<>> THEN 0 ELSE Head(a)
             y == IF b = <<>> THEN 0 ELSE Head(b)
             s == x + y + c
         IN  <<s % Base>> \o NatAddC(IF a = <<>> THEN a ELSE Tail(a),
                                     IF b = <<>> THEN b ELSE Tail(b),
                                     s \div Base)

NatAdd(a, b) == NatAddC(a, b, 0)

RECURSIVE NatSubB(_, _, _)
NatSubB(a, b, c) ==
    IF a = <<>> THEN <<>>
    ELSE LET y == IF b = <<>> THEN 0 ELSE Head(b)
             d == Head(a) - y - c
         IN  <<IF d < 0 THEN d + Base ELSE d>>
                 \o NatSubB(Tail(a), IF b = <<>> THEN b ELSE Tail(b),
                            IF d < 0 THEN 1 ELSE 0)

\* a - b for a >= b
NatSub(a, b) == NatNorm(NatSubB(a, b, 0))

RECURSIVE NatMulSmallC(_, _, _)
NatMulSmallC(a, k, c) ==
    IF a = <<>> THEN (IF c = 0 THEN <<>> ELSE <<c>>)
    ELSE LET p == Head(a) * k + c
         IN  <<p % Base>> \o NatMulSmallC(Tail(a), k, p \div Base)

\* a * k for one limb k
NatMulSmall(a, k) == NatNorm(NatMulSmallC(a, k, 0))

RECURSIVE NatMulR(_, _)
NatMulR(a, b) ==
    IF b = <<>> THEN <<>>
    ELSE NatAdd(NatMulSmallC(a, Head(b), 0), <<0>> \o NatMulR(a, Tail(b)))

NatMul(a, b) == NatNorm(NatMulR(a, b))

\* the largest d in lo..hi with b * d <= cur
RECURSIVE QDigit(_, _, _, _)
QDigit(cur, b, lo, hi) ==
    IF lo = hi THEN lo
    ELSE LET mid == (lo + hi + 1) \div 2
         IN  IF NatCmp(NatMulSmall(b, mid), cur) <= 0
             THEN QDigit(cur, b, mid, hi)
             ELSE QDigit(cur, b, lo, mid - 1)

RECURSIVE NatDivStep(_, _, _, _, _)
NatDivStep(a, b, i, rem, q) ==
    IF i = 0 THEN [q |-> NatNorm(q), r |-> rem]
    ELSE LET cur == NatNorm(<<a[i]>> \o rem)
             d   == QDigit(cur, b, 0, Base - 1)
         IN  NatDivStep(a, b, i - 1, NatSub(cur, NatMulSmall(b, d)), <<d>> \o q)

\* quotient and remainder of a by b, b # 0 (long division)
NatDivMod(a, b) == NatDivStep(a, b, Len(a), <<>>, <<>>)

MkInt(neg, mag) ==
    LET m == NatNorm(mag) IN [neg |-> neg /\ m # <<>>, mag |-> m]

\* the i64 of a small integer of the model
I(n) == IF n < 0 THEN MkInt(TRUE, NatOf(-n)) ELSE MkInt(FALSE, NatOf(n))

Zero == I(0)

SNeg(x) == MkInt(~x.neg, x.mag)

SAdd(x, y) ==
    IF x.neg = y.neg THEN MkInt(x.neg, NatAdd(x.mag, y.mag))
    ELSE IF NatCmp(x.mag, y.mag) >= 0 THEN MkInt(x.neg, NatSub(x.mag, y.mag))
    ELSE MkInt(y.neg, NatSub(y.mag, x.mag))

SSub(x, y) == SAdd(x, SNeg(y))

SMul(x, y) == MkInt(x.neg # y.neg, NatMul(x.mag, y.mag))

\* the quotient rounded toward negative infinity, y # 0
SDivFloor(x, y) ==
    IF x.neg # y.neg /\ NatDivMod(x.mag, y.mag).r # <<>>
    THEN MkInt(TRUE, NatAdd(NatDivMod(x.mag, y.mag).q, <<1>>))
    ELSE MkInt(x.neg # y.neg, NatDivMod(x.mag, y.mag).q)

\* the quotient truncated toward zero, y # 0
SDiv(x, y) == MkInt(x.neg # y.neg, NatDivMod(x.mag, y.mag).q)

SLe(x, y) ==
    IF x.neg /\ ~y.neg THEN TRUE
    ELSE IF ~x.neg /\ y.neg THEN FALSE
    ELSE IF x.neg THEN NatCmp(x.mag, y.mag) >= 0
    ELSE NatCmp(x.mag, y.mag) <= 0

SLt(x, y) == SLe(x, y) /\ x # y

\* 2^63 and 2^64
Two63 == <<5808, 5477, 368, 3372, 922>>
Two64 == <<1616, 955, 737, 6744, 1844>>

I64Min == MkInt(TRUE, Two63)
I64Max == MkInt(FALSE, NatSub(Two63, <<1>>))

InI64(x) == SLe(I64Min, x) /\ SLe(x, I64Max)

\* the two's-complement value the low 64 bits of x stand for
Wrap(x) ==
    LET m == NatDivMod(x.mag, Two64).r
        u == IF x.neg /\ m # <<>> THEN NatSub(Two64, m) ELSE m
    IN  IF NatCmp(u, Two63) >= 0 THEN MkInt(TRUE, NatSub(Two64, u))
        ELSE MkInt(FALSE, u)


\* what an i64 operation with the exact result x leaves: the value kept, whether
\* x was out of range, and whether the build panics on it (overflow checks on:
\* the debug profile) or keeps the wrapped value (off: the release profile)
ChkRange(x, inRange, checks) ==
    [val |-> IF inRange THEN x ELSE Wrap(x),
     ovf |-> ~inRange,
     panic |-> ~inRange /\ checks]

Chk(x, checks) == ChkRange(x, InI64(x), checks)

(***************************************************************************)
(* Tokens and events (tagged unions, as tuples headed by the variant).     *)
(***************************************************************************)
Add == <<"Add">>
Sub == <<"Sub">>
Mul == <<"Mul">>
Div == <<"Div">>
Number(n) == <<"Number", n>>

Operators == {Add, Sub, Mul, Div}
IsNumber(token) == token[1] = "Number"

Eq == <<"Eq">>
Neg == <<"Neg">>
Backspace == <<"Backspace">>
Reset == <<"Reset">>
Idle == <<"Idle">>

(***************************************************************************)
(* shunting_yard: infix to postfix.                                        *)
(***************************************************************************)
\* an incoming Add or Sub that moves nothing to the output
AddSubPopsNone == {}

\* the stack tops an incoming Add or Sub moves to the output
AddSubPops == {Add, Sub}
\* an incoming Mul or Div that moves every operator on top to the output
MulDivPopsAll == {Add, Sub, Mul, Div}

\* the stack tops an incoming Mul or Div moves to the output
MulDivPops == {Mul, Div}

\* while let Some(top) = operator_stack.last() { if top in pops { pop to output } else break }
RECURSIVE PopWhile(_, _)
PopWhile(st, pops) ==
    IF st.operator_stack # <<>>
       /\ st.operator_stack[Len(st.operator_stack)] \in pops
    THEN PopWhile(
           [output_queue |->
                Append(st.output_queue, st.operator_stack[Len(st.operator_stack)]),
            operator_stack |->
                SubSeq(st.operator_stack, 1, Len(st.operator_stack) - 1)],
           pops)
    ELSE st

\* one iteration of `for token in tokens`
YardStep(st, token) ==
    IF IsNumber(token)
    THEN [st EXCEPT !.output_queue = Append(@, token)]
    ELSE LET p == PopWhile(st, IF token \in {Add, Sub} THEN AddSubPops
                                                       ELSE MulDivPops)
         IN  [p EXCEPT !.operator_stack = Append(@, token)]

RECURSIVE YardLoop(_, _)
YardLoop(st, tokens) ==
    IF tokens = <<>> THEN st
    ELSE YardLoop(YardStep(st, Head(tokens)), Tail(tokens))

\* while let Some(op) = operator_stack.pop() { output_queue.push(op) }
RECURSIVE YardDrain(_)
YardDrain(st) ==
    IF st.operator_stack = <<>> THEN st.output_queue
    ELSE YardDrain(
           [output_queue |->
                Append(st.output_queue, st.operator_stack[Len(st.operator_stack)]),
            operator_stack |->
                SubSeq(st.operator_stack, 1, Len(st.operator_stack) - 1)])

shunting_yard(tokens) ==
    YardDrain(YardLoop([output_queue |-> <<>>, operator_stack |-> <<>>], tokens))

(***************************************************************************)
(* calculate: postfix evaluation on a numeric stack.  err is "none" or the *)
(* panic that ends the evaluation: "unwrap" (pop of an empty stack),       *)
(* "div_by_zero", "overflow".                                              *)
(***************************************************************************)
ArithOf(c) ==
    [val |-> c.val, ovf |-> c.ovf, err |-> IF c.panic THEN "overflow" ELSE "none"]

\* x op y in i64
Arith(op, x, y, checks) ==
    IF op = Div
    THEN IF y = Zero
         THEN [val |-> Zero, ovf |-> FALSE, err |-> "div_by_zero"]
         ELSE IF x = I64Min /\ y = I(-1)
         THEN [val |-> Zero, ovf |-> TRUE, err |-> "overflow"]
         ELSE [val |-> SDiv(x, y), ovf |-> FALSE, err |-> "none"]
    ELSE ArithOf(Chk(IF op = Add THEN SAdd(x, y)
                     ELSE IF op = Sub THEN SSub(x, y)
                     ELSE SMul(x, y), checks))

\* stack.push(r) for the result r of x op y, both already popped
EvalPush(ev, r) ==
    IF r.err # "none"
    THEN [ev EXCEPT !.err = r.err, !.ovf = @ \/ r.ovf]
    ELSE [stack |-> Append(SubSeq(ev.stack, 1, Len(ev.stack) - 2), r.val),
          err |-> "none",
          ovf |-> ev.ovf \/ r.ovf]

\* EvalStep with the operands taken in the wrong order (x popped first)
EvalStepSwapped(ev, token, checks) ==
    IF IsNumber(token)
    THEN [ev EXCEPT !.stack = Append(@, token[2])]
    ELSE IF Len(ev.stack) < 2
    THEN [ev EXCEPT !.err = "unwrap"]
    ELSE EvalPush(ev, Arith(token, ev.stack[Len(ev.stack)],
                            ev.stack[Len(ev.stack) - 1], checks))

\* one iteration of `for token in shunting_yard(..)`: y is popped first, then x
EvalStep(ev, token, checks) ==
    IF IsNumber(token)
    THEN [ev EXCEPT !.stack = Append(@, token[2])]
    ELSE IF Len(ev.stack) < 2
    THEN [ev EXCEPT !.err = "unwrap"]
    ELSE EvalPush(ev, Arith(token, ev.stack[Len(ev.stack) - 1],
                            ev.stack[Len(ev.stack)], checks))

RECURSIVE EvalLoop(_, _, _)
EvalLoop(ev, tokens, checks) ==
    IF tokens = <<>> \/ ev.err # "none" THEN ev
    ELSE EvalLoop(EvalStep(ev, Head(tokens), checks), Tail(tokens), checks)

\* the numeric stack after the loop over the postfix tokens
Evaluate(ops, checks) ==
    EvalLoop([stack |-> <<>>, err |-> "none", ovf |-> FALSE],
             shunting_yard(ops), checks)

\* calculate(): the loop, then stack.pop().unwrap(); depth is the number of
\* values on the stack when the loop has consumed every token
EvalPop(ev) ==
    IF ev.err # "none"
    THEN [value |-> Zero, err |-> ev.err, ovf |-> ev.ovf, depth |-> Len(ev.stack)]
    ELSE IF ev.stack = <<>>
    THEN [value |-> Zero, err |-> "unwrap", ovf |-> ev.ovf, depth |-> 0]
    ELSE [value |-> ev.stack[Len(ev.stack)], err |-> "none",
          ovf |-> ev.ovf, depth |-> Len(ev.stack)]

calculate(ops, checks) == EvalPop(Evaluate(ops, checks))


(***************************************************************************)
(* The calculator.  ops and accumulator are the fields of Calculator;      *)
(* status is "running" or the panic that ended the process;                *)
(* overflow_checks is the build's overflow-checks setting; ovf tells       *)
(* whether the last dispatch computed a value outside i64; hist records    *)
(* each dispatched event with the fields it found; budget is the number of *)
(* events the environment may still send.                                  *)
(***************************************************************************)
VARIABLES ops, accumulator, status, overflow_checks, ovf, hist, budget, yard, gui

vars ==
    <<ops, accumulator, status, overflow_checks, ovf, hist, budget, yard, gui>>

\* yard is one call of shunting_yard taken on its own: its argument tokens,
\* the part of tokens the for loop has still to read (rest), the locals
\* output_queue and operator_stack, the token read last with the locals it
\* found (token, before), and the returned vector (output) once phase is
\* "done".  No call is under way while the calculator takes events.
YardIdle ==
    [phase |-> "idle", tokens |-> <<>>, rest |-> <<>>,
     st |-> [output_queue |-> <<>>, operator_stack |-> <<>>],
     token |-> <<>>,
     before |-> [output_queue |-> <<>>, operator_stack |-> <<>>],
     output |-> <<>>]

\* the largest accumulator that still takes a digit
DigitGuard == MkInt(FALSE, <<9999, 9999, 99>>)

\* Default for Calculator
Default(checks) ==
    [ops |-> <<>>, accumulator |-> Zero, status |-> "running",
     overflow_checks |-> checks, ovf |-> FALSE, hist |-> <<>>]

\* i64::to_string, the string as the sequence of its characters
LimbDigits(l) == <<l \div 1000, (l \div 100) % 10, (l \div 10) % 10, l % 10>>

RECURSIVE MagDigits(_)
MagDigits(mag) ==
    IF mag = <<>> THEN <<>> ELSE MagDigits(Tail(mag)) \o LimbDigits(Head(mag))

RECURSIVE StripZeros(_)
StripZeros(ds) ==
    IF ds # <<>> /\ Head(ds) = 0 THEN StripZeros(Tail(ds)) ELSE ds

DigitChar(d) == <<"0", "1", "2", "3", "4", "5", "6", "7", "8", "9">>[d + 1]

to_string(x) ==
    IF x = Zero THEN <<"0">>
    ELSE (IF x.neg THEN <<"-">> ELSE <<>>)
         \o [i \in 1..Len(StripZeros(MagDigits(x.mag))) |->
                DigitChar(StripZeros(MagDigits(x.mag))[i])]

\* Calculator::display
display(c) == to_string(c.accumulator)

\* Events::Idle => {}
OnIdle(c) == [c EXCEPT !.ovf = FALSE]

\* EqStore without self.ops.clear()
EqStoreKeepsOps(c, r) ==
    IF r.err # "none"
    THEN [c EXCEPT !.ops = Append(c.ops, Number(c.accumulator)),
                   !.status = r.err, !.ovf = r.ovf]
    ELSE [c EXCEPT !.ops = Append(c.ops, Number(c.accumulator)),
                   !.accumulator = r.value, !.ovf = r.ovf]

\* self.accumulator = <r>; self.ops.clear(), for the outcome r of calculate()
EqStore(c, r) ==
    IF r.err # "none"
    THEN [c EXCEPT !.ops = Append(c.ops, Number(c.accumulator)),
                   !.status = r.err, !.ovf = r.ovf]
    ELSE [c EXCEPT !.ops = <<>>, !.accumulator = r.value, !.ovf = r.ovf]

\* OnEq without self.ops.push(Tokens::Number(self.accumulator))
OnEqNoPush(c) == EqStore(c, calculate(c.ops, c.overflow_checks))

\* Events::Eq
OnEq(c) ==
    EqStore(c, calculate(Append(c.ops, Number(c.accumulator)), c.overflow_checks))

\* OnReset without self.accumulator = 0
OnResetKeepsAccumulator(c) == [c EXCEPT !.ops = <<>>, !.ovf = FALSE]

\* Events::Reset
OnReset(c) == [c EXCEPT !.ops = <<>>, !.accumulator = Zero, !.ovf = FALSE]

\* self.accumulator = <m>, for the outcome m of an i64 operation
Store(c, m) ==
    IF m.panic THEN [c EXCEPT !.status = "overflow", !.ovf = TRUE]
    ELSE [c EXCEPT !.accumulator = m.val, !.ovf = m.ovf]

\* Events::Neg
OnNeg(c) == Store(c, Chk(SMul(c.accumulator, I(-1)), c.overflow_checks))

\* self.accumulator += num as i64, after self.accumulator *= 10 left m
AddDigit(c, m, num) ==
    IF m.panic THEN [c EXCEPT !.status = "overflow", !.ovf = TRUE]
    ELSE [Store(c, Chk(SAdd(m.val, I(num)), c.overflow_checks))
            EXCEPT !.ovf = @ \/ m.ovf]

\* Events::Number(num)
OnNumber(c, num) ==
    IF SLe(c.accumulator, DigitGuard)
    THEN AddDigit(c, Chk(SMul(c.accumulator, I(10)), c.overflow_checks), num)
    ELSE [c EXCEPT !.ovf = FALSE]

\* OnBackspace with the quotient rounded toward negative infinity
OnBackspaceFloors(c) ==
    [c EXCEPT !.accumulator =
                 IF c.accumulator.neg
                    /\ SMul(SDiv(c.accumulator, I(10)), I(10)) # c.accumulator
                 THEN SSub(SDiv(c.accumulator, I(10)), I(1))
                 ELSE SDiv(c.accumulator, I(10)),
              !.ovf = FALSE]

\* OnBackspace that deletes the last token once no digit is left
OnBackspacePopsToken(c) ==
    IF c.accumulator = Zero /\ c.ops # <<>>
    THEN [c EXCEPT !.ops = SubSeq(c.ops, 1, Len(c.ops) - 1), !.ovf = FALSE]
    ELSE [c EXCEPT !.accumulator = SDiv(c.accumulator, I(10)), !.ovf = FALSE]

\* Events::Backspace
OnBackspace(c) ==
    [c EXCEPT !.accumulator = SDiv(c.accumulator, I(10)), !.ovf = FALSE]

\* OpToken with the Sub arm a copy of the Add arm
OpTokenSubAsAdd(op) ==
    IF op[1] = "Add" THEN Add
    ELSE IF op[1] = "Sub" THEN Add
    ELSE IF op[1] = "Mul" THEN Mul
    ELSE Div

\* match op { Events::Add => Some(Tokens::Add), ... }: the token of an
\* operator event is the token of the same name
OpToken(op) ==
    IF op[1] = "Add" THEN Add
    ELSE IF op[1] = "Sub" THEN Sub
    ELSE IF op[1] = "Mul" THEN Mul
    ELSE Div

\* OnOperator without self.ops.push(Tokens::Number(self.accumulator))
OnOperatorDropsOperand(c, op_token) ==
    [c EXCEPT !.ops = Append(c.ops, op_token),
              !.accumulator = Zero,
              !.ovf = FALSE]

\* Events::Add | Events::Sub | Events::Mul | Events::Div, op_token the
\* token the match gave
OnOperator(c, op_token) ==
    [c EXCEPT !.ops = c.ops \o <<Number(c.accumulator), op_token>>,
              !.accumulator = Zero,
              !.ovf = FALSE]

\* dispatch(event); a process that has panicked takes no further event
dispatch(c, event) ==
    IF c.status # "running" THEN c
    ELSE LET n == IF event = Idle THEN OnIdle(c)
                  ELSE IF event = Eq THEN OnEq(c)
                  ELSE IF event = Reset THEN OnReset(c)
                  ELSE IF event = Neg THEN OnNeg(c)
                  ELSE IF event[1] = "Number" THEN OnNumber(c, event[2])
                  ELSE IF event = Backspace THEN OnBackspace(c)
                  ELSE OnOperator(c, OpToken(event))
         IN  [n EXCEPT !.hist = Append(c.hist,
                  [event |-> event, ops |-> c.ops, accumulator |-> c.accumulator])]

\* the calculator after the events of script, dispatched in order
RECURSIVE Run(_, _)
Run(c, script) ==
    IF script = <<>> THEN c ELSE Run(dispatch(c, Head(script)), Tail(script))

(***************************************************************************)
(* The Calculator of main.rs, the copy the window drives.  gui holds its    *)
(* fields ops and accumulator, status as above, the label of the button    *)
(* clicked last (button) and the fields that click found (found).  Its     *)
(* Events have no Neg and no Backspace.  Both copies are built with the    *)
(* same profile (overflow_checks).                                         *)
(***************************************************************************)
main_Default ==
    [ops |-> <<>>, accumulator |-> Zero, status |-> "running",
     button |-> "", found |-> [ops |-> <<>>, accumulator |-> Zero]]

\* while let Some(top) = operator_stack.last(): tops in `tops` go to the output
RECURSIVE main_PopTops(_, _, _)
main_PopTops(output_queue, operator_stack, tops) ==
    IF operator_stack = <<>> THEN
        [output_queue |-> output_queue, operator_stack |-> operator_stack]
    ELSE IF operator_stack[Len(operator_stack)] \notin tops THEN
        [output_queue |-> output_queue, operator_stack |-> operator_stack]
    ELSE main_PopTops(Append(output_queue, operator_stack[Len(operator_stack)]),
                      SubSeq(operator_stack, 1, Len(operator_stack) - 1), tops)

\* operator_stack.push(token) after the while loop left st
main_PushOperator(st, token) ==
    [output_queue |-> st.output_queue,
     operator_stack |-> Append(st.operator_stack, token)]

\* the operator stack popped empty into the output, top first
main_Drain(output_queue, operator_stack) ==
    output_queue \o [i \in 1..Len(operator_stack) |->
                        operator_stack[Len(operator_stack) + 1 - i]]

\* fn shunting_yard of main.rs, the for loop from `tokens` on
RECURSIVE main_YardFrom(_, _, _)
RECURSIVE main_YardNext(_, _)
main_YardFrom(tokens, output_queue, operator_stack) ==
    IF tokens = <<>> THEN main_Drain(output_queue, operator_stack)
    ELSE IF tokens[1][1] = "Number"
    THEN main_YardFrom(Tail(tokens), Append(output_queue, tokens[1]), operator_stack)
    ELSE main_YardNext(Tail(tokens),
            main_PushOperator(
                main_PopTops(output_queue, operator_stack,
                             IF tokens[1][1] \in {"Add", "Sub"}
                             THEN {<<"Add">>, <<"Sub">>}
                             ELSE {<<"Mul">>, <<"Div">>}),
                tokens[1]))

main_YardNext(tokens, st) ==
    main_YardFrom(tokens, st.output_queue, st.operator_stack)

main_shunting_yard(tokens) == main_YardFrom(tokens, <<>>, <<>>)

\* what an i64 operation with the exact result x yields in this build
main_Checked(x, checks) ==
    IF InI64(x) THEN [val |-> x, err |-> "none"]
    ELSE IF checks THEN [val |-> Zero, err |-> "overflow"]
    ELSE [val |-> Wrap(x), err |-> "none"]

\* the arms of `match token` in calculate, x and y popped
main_Arith(token, x, y, checks) ==
    IF token[1] = "Add" THEN main_Checked(SAdd(x, y), checks)
    ELSE IF token[1] = "Sub" THEN main_Checked(SSub(x, y), checks)
    ELSE IF token[1] = "Mul" THEN main_Checked(SMul(x, y), checks)
    ELSE IF y = Zero THEN [val |-> Zero, err |-> "div_by_zero"]
    ELSE IF x = I64Min /\ y = I(-1) THEN [val |-> Zero, err |-> "overflow"]
    ELSE [val |-> SDiv(x, y), err |-> "none"]

\* fn calculate of main.rs over the postfix tokens, stack the local stack
RECURSIVE main_Eval(_, _, _)
RECURSIVE main_EvalPush(_, _, _, _)
main_Eval(postfix, stack, checks) ==
    IF postfix = <<>>
    THEN IF stack = <<>> THEN [value |-> Zero, err |-> "unwrap"]
         ELSE [value |-> stack[Len(stack)], err |-> "none"]
    ELSE IF postfix[1][1] = "Number"
    THEN main_Eval(Tail(postfix), Append(stack, postfix[1][2]), checks)
    ELSE IF Len(stack) < 2 THEN [value |-> Zero, err |-> "unwrap"]
    ELSE main_EvalPush(Tail(postfix), SubSeq(stack, 1, Len(stack) - 2),
                       main_Arith(postfix[1], stack[Len(stack) - 1],
                                  stack[Len(stack)], checks),
                       checks)

main_EvalPush(postfix, stack, r, checks) ==
    IF r.err # "none" THEN [value |-> Zero, err |-> r.err]
    ELSE main_Eval(postfix, Append(stack, r.val), checks)

main_calculate(tokens, checks) == main_Eval(main_shunting_yard(tokens), <<>>, checks)

\* self.accumulator = self.calculate(); self.ops.clear()
main_EqStore(g, r) ==
    IF r.err # "none" THEN [g EXCEPT !.status = r.err]
    ELSE [g EXCEPT !.ops = <<>>, !.accumulator = r.value]

main_OnEq(g, checks) ==
    main_EqStore(g, main_calculate(Append(g.ops, <<"Number", g.accumulator>>), checks))

\* main_OnReset without self.accumulator = 0
main_OnResetKeepsAccumulator(g) == [g EXCEPT !.ops = <<>>]

main_OnReset(g) == [g EXCEPT !.ops = <<>>, !.accumulator = Zero]

\* self.accumulator = <m>, for the outcome m of an i64 operation
main_SetAccumulator(g, m) ==
    IF m.err # "none" THEN [g EXCEPT !.status = m.err]
    ELSE [g EXCEPT !.accumulator = m.val]

\* self.accumulator += num as i64, m the outcome of self.accumulator *= 10
main_AddDigit(g, m, num, checks) ==
    IF m.err # "none" THEN [g EXCEPT !.status = m.err]
    ELSE main_SetAccumulator(g, main_Checked(SAdd(m.val, I(num)), checks))

main_OnNumber(g, num, checks) ==
    IF SLe(g.accumulator, MkInt(FALSE, <<9999, 9999, 99>>))
    THEN main_AddDigit(g, main_Checked(SMul(g.accumulator, I(10)), checks), num, checks)
    ELSE g

main_OnOperator(g, op) ==
    [g EXCEPT !.ops = Append(Append(g.ops, <<"Number", g.accumulator>>),
                             IF op[1] = "Add" THEN <<"Add">>
                             ELSE IF op[1] = "Sub" THEN <<"Sub">>
                             ELSE IF op[1] = "Mul" THEN <<"Mul">>
                             ELSE <<"Div">>),
              !.accumulator = Zero]

\* fn dispatch of main.rs
main_dispatch(g, event, checks) ==
    IF g.status # "running" THEN g
    ELSE IF event[1] = "Idle" THEN g
    ELSE IF event[1] = "Eq" THEN main_OnEq(g, checks)
    ELSE IF event[1] = "Reset" THEN main_OnReset(g)
    ELSE IF event[1] = "Number" THEN main_OnNumber(g, event[2], checks)
    ELSE main_OnOperator(g, event)

\* the event a click on the button labelled label dispatches ("+-" stands
\* for the plus-minus sign, "C" for clear)
Button(label) ==
    IF label = "C" THEN <<"Reset">>
    ELSE IF label = "+-" THEN <<"Idle">>
    ELSE IF label = "+" THEN <<"Add">>
    ELSE IF label = "-" THEN <<"Sub">>
    ELSE IF label = "*" THEN <<"Mul">>
    ELSE IF label = "/" THEN <<"Div">>
    ELSE IF label = "=" THEN <<"Eq">>
    ELSE <<"Number", CHOOSE num \in 0..9 : DigitChar(num) = label>>

\* update, for a click on the button labelled label
main_click(g, label, checks) ==
    [main_dispatch(g, Button(label), checks)
        EXCEPT !.button = label,
               !.found = [ops |-> g.ops, accumulator |-> g.accumulator]]

RECURSIVE main_Run(_, _, _)
main_Run(g, labels, checks) ==
    IF labels = <<>> THEN g
    ELSE main_Run(main_click(g, Head(labels), checks), Tail(labels), checks)

Cur ==
    [ops |-> ops, accumulator |-> accumulator, status |-> status,
     overflow_checks |-> overflow_checks, ovf |-> ovf, hist |-> hist]

\* the environment may send an event: the process runs, the budget is not spent
CanSend == budget > 0 /\ status = "running"

Takes(c) ==
    /\ ops' = c.ops
    /\ accumulator' = c.accumulator
    /\ status' = c.status
    /\ overflow_checks' = c.overflow_checks
    /\ ovf' = c.ovf
    /\ hist' = c.hist
    /\ budget' = budget - 1
    /\ yard' = yard

\* the calculator of calculator.rs becomes c; no window is attached
Becomes(c) == Takes(c) /\ gui' = gui

Holds(c, n) ==
    /\ ops = c.ops
    /\ accumulator = c.accumulator
    /\ status = c.status
    /\ overflow_checks = c.overflow_checks
    /\ ovf = c.ovf
    /\ hist = c.hist
    /\ budget = n
    /\ yard = YardIdle

Starts(c, n) == Holds(c, n) /\ gui = main_Default

(***************************************************************************)
(* Bounds.                                                                 *)
(***************************************************************************)
\* tokens of an argument of shunting_yard (SpecYard)
MaxTokens == 5

\* events sent after construction (Spec)
MaxEvents == 4
\* events sent after a scripted operand entry (SpecEntry)
MaxEntryEvents == 2
\* operators of a scripted expression (SpecExpr)
MaxOperators == 3
\* events sent after a scripted evaluation and operator (SpecChain)
MaxChainEvents == 2
\* buttons clicked after a scripted expression (SpecGui)
MaxClicks == 2

\* the digit keys
Digits == 0..9
\* the digit keys used where event sequences are enumerated to depth MaxEvents
FewDigits == {0, 1, 2, 9}
\* the operand keys of the scripted expressions
ExprDigits == {0, 2, 3}

(***************************************************************************)
(* Actions: one per event.                                                 *)
(***************************************************************************)
DispatchIdle == CanSend /\ Becomes(dispatch(Cur, Idle))
DispatchEq == CanSend /\ Becomes(dispatch(Cur, Eq))
DispatchReset == CanSend /\ Becomes(dispatch(Cur, Reset))
DispatchNeg == CanSend /\ Becomes(dispatch(Cur, Neg))
DispatchNumber(num) == CanSend /\ Becomes(dispatch(Cur, Number(num)))
DispatchBackspace == CanSend /\ Becomes(dispatch(Cur, Backspace))
DispatchOperator(op) == CanSend /\ Becomes(dispatch(Cur, op))

Init == \E checks \in BOOLEAN : Starts(Default(checks), MaxEvents)

Next ==
    \/ DispatchIdle
    \/ DispatchEq
    \/ DispatchReset
    \/ DispatchNeg
    \/ \E num \in FewDigits : DispatchNumber(num)
    \/ DispatchBackspace
    \/ \E op \in Operators : DispatchOperator(op)

Spec == Init /\ [][Next]_vars


(***************************************************************************)
(* Scripted starts.  The event sequences needed to enter a ten-digit       *)
(* operand or a three-operator expression are longer than MaxEvents, so    *)
(* further specifications start from the state the calculator is in after  *)
(* a script of events has been dispatched to the constructed calculator    *)
(* (Run), and send events freely from there.                               *)
(***************************************************************************)
Rep(event, n) == [i \in 1..n |-> event]

DigitKeys(ds) == [i \in 1..Len(ds) |-> Number(ds[i])]

\* -2147483648 * 4294967296 evaluated: the accumulator is i64::MIN, and no
\* value outside i64 was computed on the way
MinScript ==
    DigitKeys(<<2, 1, 4, 7, 4, 8, 3, 6, 4, 8>>) \o <<Neg, Mul>>
        \o DigitKeys(<<4, 2, 9, 4, 9, 6, 7, 2, 9, 6>>) \o <<Eq>>

\* operand entries of up to ten digits: 9..9, 10..0, the prefixes of
\* 1234567890; and entries with a Neg behind the first digit, of up to
\* twenty digits
EntryScripts ==
    {Rep(Number(9), n) : n \in 0..10}
    \cup {<<Number(1)>> \o Rep(Number(0), n) : n \in 0..9}
    \cup {SubSeq(DigitKeys(<<1, 2, 3, 4, 5, 6, 7, 8, 9, 0>>), 1, n) : n \in 1..10}
    \cup {<<Number(1), Neg>> \o Rep(Number(0), n) : n \in 0..18}
    \cup {<<Number(9), Neg>> \o Rep(Number(9), n) : n \in 0..18}
    \cup {<<Number(1), Neg>> \o SubSeq(DigitKeys(<<2, 3, 4, 5, 6, 7, 8, 9, 0, 1>>), 1, n)
            : n \in 1..10}
    \cup {MinScript}

InitEntry ==
    \E checks \in BOOLEAN : \E script \in EntryScripts :
        Starts(Run(Default(checks), script), MaxEntryEvents)

NextEntry ==
    \/ DispatchIdle
    \/ DispatchEq
    \/ DispatchReset
    \/ DispatchNeg
    \/ \E num \in Digits : DispatchNumber(num)
    \/ DispatchBackspace
    \/ \E op \in Operators : DispatchOperator(op)

SpecEntry == InitEntry /\ [][NextEntry]_vars

\* the entries n0 op1 n1 ... opk nk of one-digit operands
RECURSIVE ExprScripts(_)
ExprScripts(k) ==
    IF k = 0 THEN {<<Number(d)>> : d \in ExprDigits}
    ELSE {script \o <<op, Number(d)>> :
            script \in ExprScripts(k - 1), op \in Operators, d \in ExprDigits}

InitExpr ==
    \E checks \in BOOLEAN : \E k \in 0..MaxOperators : \E script \in ExprScripts(k) :
        Starts(Run(Default(checks), script), 1)

NextExpr == DispatchEq

SpecExpr == InitExpr /\ [][NextExpr]_vars

\* one operand of either sign: a digit, then Neg for a negative one
Operand(d, negative) == IF negative THEN <<Number(d), Neg>> ELSE <<Number(d)>>

\* a op b with a and b of either sign
BinaryScripts ==
    {Operand(a, na) \o <<op>> \o Operand(b, nb) :
        a \in Digits, na \in BOOLEAN, op \in Operators, b \in Digits, nb \in BOOLEAN}

InitBinary ==
    \E checks \in BOOLEAN : \E script \in BinaryScripts :
        Starts(Run(Default(checks), script), 1)

NextBinary == DispatchEq

SpecBinary == InitBinary /\ [][NextBinary]_vars

\* the tokens of the arguments of shunting_yard
YardTokens == {Number(I(1)), Number(I(2)), Add, Sub, Mul, Div}

\* every token sequence of length n, alternating or not
RECURSIVE TokenSeqs(_)
TokenSeqs(n) ==
    IF n = 0 THEN {<<>>}
    ELSE {Append(seq, token) : seq \in TokenSeqs(n - 1), token \in YardTokens}

\* shunting_yard(tokens) is entered
InitYard ==
    \E n \in 0..MaxTokens : \E tokens \in TokenSeqs(n) :
        /\ ops = <<>>
        /\ accumulator = Zero
        /\ status = "running"
        /\ overflow_checks = TRUE
        /\ ovf = FALSE
        /\ hist = <<>>
        /\ budget = 0
        /\ gui = main_Default
        /\ yard = [YardIdle EXCEPT !.phase = "loop", !.tokens = tokens,
                                   !.rest = tokens]

\* one iteration of `for token in tokens`
YardToken ==
    /\ yard.phase = "loop"
    /\ yard.rest # <<>>
    /\ yard' = [yard EXCEPT !.rest = Tail(yard.rest),
                            !.token = Head(yard.rest),
                            !.before = yard.st,
                            !.st = YardStep(yard.st, Head(yard.rest))]
    /\ UNCHANGED <<ops, accumulator, status, overflow_checks, ovf, hist, budget, gui>>

\* the loop is over: the operator stack is drained and the output returned
YardReturn ==
    /\ yard.phase = "loop"
    /\ yard.rest = <<>>
    /\ yard' = [yard EXCEPT !.phase = "done",
                            !.st = [output_queue |-> YardDrain(yard.st),
                                    operator_stack |-> <<>>],
                            !.output = shunting_yard(yard.tokens)]
    /\ UNCHANGED <<ops, accumulator, status, overflow_checks, ovf, hist, budget, gui>>

NextYard == YardToken \/ YardReturn

SpecYard == InitYard /\ [][NextYard]_vars

\* the buttons that dispatch an event, of the digit buttons a few
GuiButtons == {"C", "+-", "+", "-", "*", "/", "="} \cup {DigitChar(num) : num \in FewDigits}

\* button sequences n0 op1 n1 ... opk nk, each operand one digit button
RECURSIVE GuiScripts(_)
GuiScripts(k) ==
    IF k = 0 THEN {<<"2">>, <<"3">>}
    ELSE {script \o <<op, digit>> :
            script \in GuiScripts(k - 1), op \in {"+", "-", "*", "/"},
            digit \in {"2", "3"}}

ButtonEvents(labels) == [i \in 1..Len(labels) |-> Button(labels[i])]

\* both calculators constructed, and the same events dispatched to each
InitGui ==
    \E checks \in BOOLEAN :
        \E script \in {<<>>} \cup GuiScripts(0) \cup GuiScripts(1) \cup GuiScripts(2) :
            /\ Holds(Run(Default(checks), ButtonEvents(script)), MaxClicks)
            /\ gui = main_Run(main_Default, script, checks)

\* one click: the event of the button goes to both calculators
Click(label) ==
    /\ CanSend
    /\ Takes(dispatch(Cur, Button(label)))
    /\ gui' = main_click(gui, label, overflow_checks)

NextGui == \E label \in GuiButtons : Click(label)

SpecGui == InitGui /\ [][NextGui]_vars

\* an expression of at most one operator, evaluated, and then an operator
ChainScripts ==
    {script \o <<Eq, op>> :
        script \in ExprScripts(0) \cup ExprScripts(1), op \in Operators}

InitChain ==
    \E checks \in BOOLEAN : \E script \in ChainScripts :
        Starts(Run(Default(checks), script), MaxChainEvents)

SpecChain == InitChain /\ [][Next]_vars

(***************************************************************************)
(* Vocabulary of the properties.                                           *)
(***************************************************************************)
\* the last dispatched event, with the fields it found
Last == hist[Len(hist)]

IsDigitEvent(event) == event[1] = "Number"
IsOperatorEvent(event) == event \in Operators

\* the sequence a Number, an operator, a Number, ... of tokens
Alternates(tokens) ==
    \A i \in 1..Len(tokens) :
        IF i % 2 = 1 THEN IsNumber(tokens[i]) ELSE tokens[i] \in Operators

OperandCount(tokens) == Cardinality({i \in 1..Len(tokens) : IsNumber(tokens[i])})
OperatorCount(tokens) == Cardinality({i \in 1..Len(tokens) : tokens[i] \in Operators})

\* x op y, exact
Exact(op, x, y) ==
    IF op = Add THEN SAdd(x, y)
    ELSE IF op = Sub THEN SSub(x, y)
    ELSE IF op = Mul THEN SMul(x, y)
    ELSE SDiv(x, y)

\* The value of the infix expression n0 op1 n1 ... under conventional
\* precedence: products and quotients are formed left to right into a term,
\* terms are added and subtracted left to right.  sum addop term is the
\* part read so far; ok is lost on a division by zero or a value outside i64.
RECURSIVE Conventional(_, _, _, _, _)
Conventional(ok, sum, addop, term, rest) ==
    IF ~ok THEN [ok |-> FALSE, val |-> Zero]
    ELSE IF rest = <<>>
    THEN [ok |-> InI64(Exact(addop, sum, term)), val |-> Exact(addop, sum, term)]
    ELSE IF rest[1] \in {Mul, Div}
    THEN IF rest[1] = Div /\ rest[2][2] = Zero
         THEN [ok |-> FALSE, val |-> Zero]
         ELSE Conventional(InI64(Exact(rest[1], term, rest[2][2])), sum, addop,
                           Exact(rest[1], term, rest[2][2]),
                           SubSeq(rest, 3, Len(rest)))
    ELSE Conventional(InI64(Exact(addop, sum, term)), Exact(addop, sum, term),
                      rest[1], rest[2][2], SubSeq(rest, 3, Len(rest)))

ConventionalValue(tokens) ==
    Conventional(TRUE, Zero, Add, tokens[1][2], SubSeq(tokens, 2, Len(tokens)))

\* events n0 op1 n1 ... opk nk, every operand entered with Number events
IsInfixEntry(events) ==
    /\ events # <<>>
    /\ \A i \in 1..Len(events) : IsDigitEvent(events[i]) \/ IsOperatorEvent(events[i])
    /\ IsDigitEvent(events[1])
    /\ IsDigitEvent(events[Len(events)])
    /\ \A i \in 2..(Len(events) - 1) :
          IsOperatorEvent(events[i])
              => IsDigitEvent(events[i - 1]) /\ IsDigitEvent(events[i + 1])

EventsOf(h) == [i \in 1..Len(h) |-> h[i].event]


(***************************************************************************)
(* C1.                                                                     *)
(***************************************************************************)
\* C1: when a well-formed infix expression n0 op1 n1 ... opk nk has been
\* entered from the constructed calculator and Eq has been dispatched, and
\* the expression has a value under conventional precedence (no division by
\* zero, nothing outside i64), the calculator runs and the accumulator is
\* that value.
C1_EqGivesConventionalValue ==
    (/\ hist # <<>>
     /\ Last.event = Eq
     /\ IsInfixEntry(SubSeq(EventsOf(hist), 1, Len(hist) - 1))
     /\ ConventionalValue(Append(Last.ops, Number(Last.accumulator))).ok)
    => /\ status = "running"
       /\ accumulator =
            ConventionalValue(Append(Last.ops, Number(Last.accumulator))).val

(***************************************************************************)
(* C2.                                                                     *)
(***************************************************************************)
\* C2: a Number(d) dispatched right after an Eq that produced R leaves the
\* accumulator at d.
C2_DigitAfterEqStartsFresh ==
    (/\ Len(hist) >= 2
     /\ IsDigitEvent(Last.event)
     /\ hist[Len(hist) - 1].event = Eq
     /\ Last.ops = <<>>)
    => /\ status = "running"
       /\ accumulator = I(Last.event[2])

(***************************************************************************)
(* C3.                                                                     *)
(***************************************************************************)
TenDigitMin == MkInt(FALSE, <<0, 0, 10>>)
TenDigitMax == MkInt(FALSE, <<9999, 9999, 99>>)
HasTenDigits(x) == SLe(TenDigitMin, x) /\ SLe(x, TenDigitMax)

\* the value the digits ds enter when a ten-digit value takes no further digit
RECURSIVE TenDigitEntry(_, _)
TenDigitEntry(v, ds) ==
    IF ds = <<>> THEN v
    ELSE TenDigitEntry(IF HasTenDigits(v) THEN v
                       ELSE SAdd(SMul(v, I(10)), I(Head(ds)[2])), Tail(ds))

\* C3: when only Number events have been dispatched since construction, the
\* accumulator is the decimal value of the digits, of which a ten-digit value
\* takes no more: a Number dispatched on a ten-digit value leaves it unchanged.
C3_DigitEntryCapsAtTenDigits ==
    (/\ hist # <<>>
     /\ \A i \in 1..Len(hist) : IsDigitEvent(hist[i].event))
    => /\ status = "running"
       /\ accumulator = TenDigitEntry(Zero, EventsOf(hist))
       /\ HasTenDigits(Last.accumulator) => accumulator = Last.accumulator

(***************************************************************************)
(* C4.                                                                     *)
(***************************************************************************)
\* C4: a dispatched Number(d), d in 0..9, computes no value outside i64 and
\* leaves the calculator running.
C4_NumberNeverOverflows ==
    (/\ hist # <<>>
     /\ IsDigitEvent(Last.event)
     /\ Last.event[2] \in 0..9)
    => ~ovf /\ status = "running"

(***************************************************************************)
(* C5.                                                                     *)
(***************************************************************************)
\* C5: a Number(d) dispatched on a negative accumulator of at most nine
\* digits leaves the display at the old display with the digit appended.
C5_NegativeOperandTakesDigit ==
    (/\ hist # <<>>
     /\ IsDigitEvent(Last.event)
     /\ Last.accumulator.neg
     /\ Len(to_string(Last.accumulator)) <= 10)
    => /\ status = "running"
       /\ display(Cur) =
            Append(to_string(Last.accumulator), DigitChar(Last.event[2]))

(***************************************************************************)
(* C6.                                                                     *)
(***************************************************************************)
\* C6: no Eq ends the process with a division by zero.
C6_DivisionByZeroIsCaught == status # "div_by_zero"

(***************************************************************************)
(* C7.                                                                     *)
(***************************************************************************)
\* C7: no dispatch ends in a pop of an empty stack, and in every state the
\* calculator can be in when Eq arrives, the evaluation pops no empty stack
\* and, when it consumes every postfix token, leaves exactly one value.
C7_EvaluationNeverUnderflows ==
    /\ status # "unwrap"
    /\ status = "running" =>
         /\ calculate(Append(ops, Number(accumulator)), overflow_checks).err
               # "unwrap"
         /\ calculate(Append(ops, Number(accumulator)), overflow_checks).err
               = "none"
            => calculate(Append(ops, Number(accumulator)), overflow_checks).depth
                 = 1

\* two operators dispatched one after the other, then an Eq that completed
C7_Witness ==
    /\ Len(hist) >= 3
    /\ status = "running"
    /\ Last.event = Eq
    /\ IsOperatorEvent(hist[Len(hist) - 1].event)
    /\ IsOperatorEvent(hist[Len(hist) - 2].event)
    /\ Len(Last.ops) = 4

(***************************************************************************)
(* C8.                                                                     *)
(***************************************************************************)
\* C8: between dispatch calls ops is empty or alternates Number, operator,
\* ..., ending with an operator, so that ops with Number(accumulator)
\* appended alternates, starts and ends with a Number and has one operand
\* more than operators.
C8_TokensAlternate ==
    status = "running" =>
        /\ Len(ops) % 2 = 0
        /\ Alternates(ops)
        /\ Alternates(Append(ops, Number(accumulator)))
        /\ IsNumber(Append(ops, Number(accumulator))[1])
        /\ OperandCount(Append(ops, Number(accumulator)))
             = OperatorCount(Append(ops, Number(accumulator))) + 1

\* two operands and two operators are committed
C8_Witness ==
    /\ status = "running"
    /\ Len(ops) = 4
    /\ ops[4] \in Operators
    /\ hist # <<>>
    /\ IsOperatorEvent(Last.event)

(***************************************************************************)
(* C9.                                                                     *)
(***************************************************************************)
\* hist[i] is an Eq, followed by an operator, then by Number events alone up
\* to the last event, an Eq
IsChain(i) ==
    /\ i >= 1
    /\ i + 3 <= Len(hist)
    /\ hist[i].event = Eq
    /\ IsOperatorEvent(hist[i + 1].event)
    /\ \A j \in (i + 2)..(Len(hist) - 1) : IsDigitEvent(hist[j].event)
    /\ Last.event = Eq

\* C9: an operator dispatched right after an Eq that produced R leaves
\* ops = [Number(R), op] and the accumulator 0; and when digits forming b
\* and an Eq follow, the accumulator is R op b (where R op b has a value:
\* b # 0 for Div, and the result within i64).
C9_ResultChains ==
    /\ (/\ Len(hist) >= 2
        /\ IsOperatorEvent(Last.event)
        /\ hist[Len(hist) - 1].event = Eq)
       => /\ Last.ops = <<>>
          /\ ops = <<Number(Last.accumulator), Last.event>>
          /\ accumulator = Zero
    /\ \A i \in 1..Len(hist) :
          (/\ IsChain(i)
           /\ ~(hist[i + 1].event = Div /\ Last.accumulator = Zero)
           /\ InI64(Exact(hist[i + 1].event, hist[i + 1].accumulator,
                          Last.accumulator)))
          => /\ status = "running"
             /\ ops = <<>>
             /\ accumulator = Exact(hist[i + 1].event, hist[i + 1].accumulator,
                                    Last.accumulator)

\* a result R # 0, then Sub, then digits forming b # 0, then Eq
C9_Witness ==
    \E i \in 1..Len(hist) :
        /\ IsChain(i)
        /\ hist[i + 1].event = Sub
        /\ hist[i + 1].accumulator # Zero
        /\ Last.accumulator # Zero
        /\ status = "running"
        /\ accumulator = SSub(hist[i + 1].accumulator, Last.accumulator)

(***************************************************************************)
(* C10.                                                                    *)
(***************************************************************************)
\* C10: a dispatched Reset leaves ops empty and the accumulator 0, whatever
\* they were, and so would a Reset dispatched in the present state.
C10_ResetYieldsInitialState ==
    /\ (hist # <<>> /\ Last.event = Reset)
       => /\ ops = Default(overflow_checks).ops
          /\ accumulator = Default(overflow_checks).accumulator
          /\ status = "running"
    /\ status = "running"
       => /\ dispatch(Cur, Reset).ops = Default(overflow_checks).ops
          /\ dispatch(Cur, Reset).accumulator
               = Default(overflow_checks).accumulator
          /\ dispatch(Cur, Reset).status = "running"

\* a Reset that found committed tokens and a nonzero accumulator
C10_Witness ==
    /\ hist # <<>>
    /\ Last.event = Reset
    /\ Last.ops # <<>>
    /\ Last.accumulator # Zero
    /\ ops = <<>>
    /\ accumulator = Zero


(***************************************************************************)
(* C11.                                                                    *)
(***************************************************************************)
\* the decimal string chars without its last digit ("0" when one digit is left)
DropLastDigit(chars) ==
    IF Len(chars) = 1 \/ (Len(chars) = 2 /\ chars[1] = "-") THEN <<"0">>
    ELSE SubSeq(chars, 1, Len(chars) - 1)

\* C11: a dispatched Backspace leaves the accumulator at the old value
\* divided by ten and truncated toward zero: the magnitude loses its last
\* decimal digit, the sign stays (unless 0 is left), for negative values too.
C11_BackspaceTruncates ==
    (hist # <<>> /\ Last.event = Backspace)
    => /\ status = "running"
       /\ NatCmp(NatMulSmall(accumulator.mag, 10), Last.accumulator.mag) <= 0
       /\ NatCmp(Last.accumulator.mag,
                 NatAdd(NatMulSmall(accumulator.mag, 10), <<9>>)) <= 0
       /\ accumulator = Zero \/ accumulator.neg = Last.accumulator.neg
       /\ to_string(accumulator) = DropLastDigit(to_string(Last.accumulator))

\* a Backspace on a negative value that is no multiple of ten, two digits or more
C11_Witness ==
    /\ hist # <<>>
    /\ Last.event = Backspace
    /\ Last.accumulator.neg
    /\ accumulator.neg
    /\ SMul(accumulator, I(10)) # Last.accumulator

(***************************************************************************)
(* C12.                                                                    *)
(***************************************************************************)
\* C12: every dispatched Neg leaves the calculator running with ops
\* unchanged, and the second of two Neg in a row leaves the accumulator at the
\* value the first one found.
C12_NegIsInvolution ==
    /\ (hist # <<>> /\ Last.event = Neg)
       => status = "running" /\ ops = Last.ops
    /\ (/\ Len(hist) >= 2
        /\ Last.event = Neg
        /\ hist[Len(hist) - 1].event = Neg)
       => /\ accumulator = hist[Len(hist) - 1].accumulator
          /\ ops = hist[Len(hist) - 1].ops

(***************************************************************************)
(* C13.                                                                    *)
(***************************************************************************)
\* the integer of an i64 of at most one limb
Small(x) ==
    IF x.mag = <<>> THEN 0 ELSE IF x.neg THEN 0 - x.mag[1] ELSE x.mag[1]

Abs(n) == IF n < 0 THEN 0 - n ELSE n

\* a op b on integers, the quotient truncated toward zero; b # 0 for Div
IntOp(op, a, b) ==
    IF op = Add THEN a + b
    ELSE IF op = Sub THEN a - b
    ELSE IF op = Mul THEN a * b
    ELSE IF (a < 0) # (b < 0) THEN 0 - (Abs(a) \div Abs(b))
    ELSE Abs(a) \div Abs(b)

\* ((n0 op1 n1) op2 n2) ..., acc being the part folded so far; ok is lost on
\* a division by zero
RECURSIVE LeftFold(_, _, _)
LeftFold(ok, acc, rest) ==
    IF ~ok \/ rest = <<>> THEN [ok |-> ok, val |-> acc]
    ELSE IF rest[1] = Div /\ rest[2][2] = Zero THEN [ok |-> FALSE, val |-> 0]
    ELSE LeftFold(TRUE, IntOp(rest[1], acc, Small(rest[2][2])),
                  SubSeq(rest, 3, Len(rest)))

LeftFoldValue(tokens) ==
    LeftFold(TRUE, Small(tokens[1][2]), SubSeq(tokens, 2, Len(tokens)))

\* every operator of tokens is Add or Sub, or every one is Mul or Div
SamePrecedence(tokens) ==
    \/ \A i \in 1..Len(tokens) : tokens[i] \in Operators => tokens[i] \in {Add, Sub}
    \/ \A i \in 1..Len(tokens) : tokens[i] \in Operators => tokens[i] \in {Mul, Div}

\* the token sequence Eq evaluates
EqTokens == Append(Last.ops, Number(Last.accumulator))

\* C13: when Eq is dispatched on an expression n0 op1 n1 ... opk nk whose
\* operators are all Add/Sub or all Mul/Div, and no step divides by zero, the
\* calculator runs and the accumulator is the left fold ((n0 op1 n1) op2 n2) ...
C13_SamePrecedenceFoldsLeft ==
    (/\ hist # <<>>
     /\ Last.event = Eq
     /\ Alternates(EqTokens)
     /\ SamePrecedence(EqTokens)
     /\ LeftFoldValue(EqTokens).ok)
    => /\ status = "running"
       /\ accumulator = I(LeftFoldValue(EqTokens).val)

\* three subtractions of non-zero operands have been evaluated
C13_Witness ==
    /\ hist # <<>>
    /\ Last.event = Eq
    /\ status = "running"
    /\ Len(Last.ops) = 6
    /\ \A i \in {2, 4, 6} : Last.ops[i] = Sub
    /\ \A i \in {1, 3, 5} : Last.ops[i][2] # Zero
    /\ Last.accumulator # Zero
    /\ accumulator = I(LeftFoldValue(EqTokens).val)

(***************************************************************************)
(* C14.                                                                    *)
(***************************************************************************)
\* C14: when Eq is dispatched on a op b (ops = [Number(a), op], accumulator
\* b, both of one digit and either sign, b # 0 for Div), the calculator runs
\* and the accumulator is a op b with a on the left and b on the right, the
\* quotient truncated toward zero.
C14_SingleOperator ==
    (/\ hist # <<>>
     /\ Last.event = Eq
     /\ Len(Last.ops) = 2
     /\ IsNumber(Last.ops[1])
     /\ Last.ops[2] \in Operators
     /\ Len(Last.ops[1][2].mag) <= 1
     /\ Len(Last.accumulator.mag) <= 1
     /\ ~(Last.ops[2] = Div /\ Last.accumulator = Zero))
    => /\ status = "running"
       /\ accumulator =
            I(IntOp(Last.ops[2], Small(Last.ops[1][2]), Small(Last.accumulator)))

\* -7 / 2 has been evaluated to -3
C14_Witness ==
    /\ hist # <<>>
    /\ Last.event = Eq
    /\ Last.ops = <<Number(I(0 - 7)), Div>>
    /\ Last.accumulator = I(2)
    /\ accumulator = I(0 - 3)

(***************************************************************************)
(* C15.                                                                    *)
(***************************************************************************)
\* C15: an operator event dispatched in any state leaves the calculator
\* running with exactly two more tokens, Number(old accumulator) and then the
\* token named as the event, the tokens before them unchanged, and the
\* accumulator 0; this holds after another operator event too.
C15_OperatorAppendsTwoTokens ==
    (hist # <<>> /\ IsOperatorEvent(Last.event))
    => /\ status = "running"
       /\ Len(ops) = Len(Last.ops) + 2
       /\ SubSeq(ops, 1, Len(Last.ops)) = Last.ops
       /\ ops[Len(ops) - 1] = Number(Last.accumulator)
       /\ ops[Len(ops)] \in Operators
       /\ ops[Len(ops)][1] = Last.event[1]
       /\ accumulator = Zero

\* Sub right after another operator that committed a non-zero operand: the
\* second operator committed Number(0)
C15_Witness ==
    /\ Len(hist) >= 2
    /\ Last.event = Sub
    /\ IsOperatorEvent(hist[Len(hist) - 1].event)
    /\ hist[Len(hist) - 1].accumulator # Zero
    /\ Len(ops) = 4
    /\ ops[3] = Number(Zero)
    /\ ops[4] = Sub

(***************************************************************************)
(* C16.                                                                    *)
(***************************************************************************)
\* C16: a Backspace dispatched right after a Number(d) that the guard let
\* through leaves the calculator running with the accumulator at the value
\* it had before the digit, negative or not.
C16_BackspaceUndoesDigit ==
    (/\ Len(hist) >= 2
     /\ Last.event = Backspace
     /\ IsDigitEvent(hist[Len(hist) - 1].event)
     /\ SLe(hist[Len(hist) - 1].accumulator, DigitGuard))
    => /\ status = "running"
       /\ accumulator = hist[Len(hist) - 1].accumulator

(***************************************************************************)
(* C17.                                                                    *)
(***************************************************************************)
\* C17: an Eq that completes leaves ops empty and the accumulator at the
\* value calculate returned; an Eq dispatched on empty ops always completes
\* and leaves the accumulator and ops as they were.
C17_EqIsIdempotent ==
    /\ (hist # <<>> /\ Last.event = Eq /\ status = "running")
       => /\ ops = <<>>
          /\ accumulator = calculate(EqTokens, overflow_checks).value
    /\ (hist # <<>> /\ Last.event = Eq /\ Last.ops = <<>>)
       => /\ status = "running"
          /\ accumulator = Last.accumulator
          /\ ops = Last.ops

\* a second Eq right after an Eq that evaluated an expression to a non-zero value
C17_Witness ==
    /\ Len(hist) >= 2
    /\ Last.event = Eq
    /\ hist[Len(hist) - 1].event = Eq
    /\ hist[Len(hist) - 1].ops # <<>>
    /\ Last.ops = <<>>
    /\ Last.accumulator # Zero
    /\ accumulator = Last.accumulator
    /\ status = "running"

(***************************************************************************)
(* C18.                                                                    *)
(***************************************************************************)
\* C18: Idle, Neg, Number(d) and Backspace leave ops as they found it, and
\* Idle leaves the accumulator as well and the calculator running.
C18_OnlyOperatorsEqResetTouchOps ==
    /\ (/\ hist # <<>>
        /\ \/ Last.event \in {Idle, Neg, Backspace}
           \/ IsDigitEvent(Last.event))
       => ops = Last.ops
    /\ (hist # <<>> /\ Last.event = Idle)
       => accumulator = Last.accumulator /\ status = "running"

\* a Backspace with no digit left to remove and tokens committed
C18_Witness ==
    /\ hist # <<>>
    /\ Last.event = Backspace
    /\ Last.accumulator = Zero
    /\ Last.ops # <<>>
    /\ ops = Last.ops

(***************************************************************************)
(* C19.                                                                    *)
(***************************************************************************)
\* how often token occurs in seq
Count(seq, token) == Cardinality({i \in 1..Len(seq) : seq[i] = token})

RECURSIVE NumbersOf(_)
NumbersOf(seq) ==
    IF seq = <<>> THEN <<>>
    ELSE IF IsNumber(Head(seq)) THEN <<Head(seq)>> \o NumbersOf(Tail(seq))
    ELSE NumbersOf(Tail(seq))

\* every non-empty prefix of seq holds more Numbers than operators
ValidPostfix(seq) ==
    \A n \in 1..Len(seq) :
        OperandCount(SubSeq(seq, 1, n)) > OperatorCount(SubSeq(seq, 1, n))

\* the tokens the last iteration moved to the output queue
Moved ==
    SubSeq(yard.st.output_queue, Len(yard.before.output_queue) + 1,
           Len(yard.st.output_queue))

\* C19: for every argument tokens, shunting_yard returns a permutation of
\* tokens of the same length with the Numbers in their order, and a valid
\* postfix sequence when tokens alternates Number, operator, ..., Number; the
\* loop and the drain produce that vector; and an iteration that reads Mul or
\* Div moves no Add or Sub from the operator stack to the output.
C19_YardPermutes ==
    /\ yard.phase = "done"
       => /\ Len(yard.output) = Len(yard.tokens)
          /\ \A token \in YardTokens :
                Count(yard.output, token) = Count(yard.tokens, token)
          /\ NumbersOf(yard.output) = NumbersOf(yard.tokens)
          /\ yard.st.output_queue = yard.output
          /\ (Len(yard.tokens) % 2 = 1 /\ Alternates(yard.tokens))
             => ValidPostfix(yard.output)
    /\ (yard.phase = "loop" /\ yard.token \in {Mul, Div})
       => /\ \A i \in 1..Len(Moved) : Moved[i] \in {Mul, Div}
          /\ Count(yard.st.operator_stack, Add)
                = Count(yard.before.operator_stack, Add)
          /\ Count(yard.st.operator_stack, Sub)
                = Count(yard.before.operator_stack, Sub)

\* n0 + n1 * n2 has been reordered to n0 n1 n2 * +
C19_Witness ==
    /\ yard.phase = "done"
    /\ Len(yard.tokens) = 5
    /\ Alternates(yard.tokens)
    /\ yard.tokens[2] = Add
    /\ yard.tokens[4] = Mul
    /\ yard.output =
         <<yard.tokens[1], yard.tokens[3], yard.tokens[5], Mul, Add>>

(***************************************************************************)
(* C20.                                                                    *)
(***************************************************************************)
\* C20: after every event dispatched to both calculators, the one of main.rs
\* and the one of calculator.rs have both panicked the same way or both run
\* with the same ops and the same accumulator; and a click on the plus-minus
\* button dispatches Idle and leaves ops and accumulator of the calculator
\* of main.rs as it found them.
C20_CalculatorsAgree ==
    /\ gui.status = status
    /\ status = "running" => gui.ops = ops /\ gui.accumulator = accumulator
    /\ gui.button = "+-"
       => /\ Button("+-") = Idle
          /\ gui.status = "running"
          /\ gui.ops = gui.found.ops
          /\ gui.accumulator = gui.found.accumulator

\* a plus-minus click with tokens committed and a non-zero operand entered
C20_Witness ==
    /\ gui.button = "+-"
    /\ Len(hist) >= 5
    /\ gui.ops # <<>>
    /\ gui.accumulator # Zero
    /\ ops = gui.ops
    /\ accumulator = gui.accumulator

====
